---- MODULE Spec2Model ----
(***************************************************************************)
(* Model of src/example_scripts/statistical_analysis.py (FP-Template).     *)
(*                                                                         *)
(* Every operation of the module is a single-shot function of its          *)
(* arguments.  The state machine below has one action per operation: the   *)
(* action draws the arguments from bounded sets, runs the whole function   *)
(* and records the call, the values handed to the numerical routine and    *)
(* the outcome (a raised exception or the returned value).                 *)
(*                                                                         *)
(* Numbers.  Observations are integers or the missing marker NaN.  Exact   *)
(* statistics are kept as signed square roots of rationals, s * sqrt(n/d), *)
(* which represents every rational and every t-, d- and F-like statistic   *)
(* without rounding; IEEE results of a division by zero are kept as the    *)
(* kinds "inf" and "nan".  Library results whose numerical value no        *)
(* property below depends on (p-values, Shapiro-Wilk W, rank correlations, *)
(* Student-t quantiles) are uninterpreted terms over their arguments.      *)
(***************************************************************************)
EXTENDS Integers, Sequences, FiniteSets, TLC

\* ------------------------------------------------------------------ bounds

\* Longest input sample of the one- and two-sample operations.
MaxLen == 3
\* Largest total number of entries over all groups passed to one_way_anova.
MaxTotal == 6
\* Largest number of groups passed to one_way_anova: as many as can hold
\* two entries each.
MaxGroups == MaxTotal \div 2

\* The observations an input may hold (besides the missing marker).
Values == {0, 1}

\* ------------------------------------------------------------- arithmetic

Abs(a) == IF a < 0 THEN -a ELSE a

Sgn(a) == IF a < 0 THEN -1 ELSE IF a = 0 THEN 0 ELSE 1

RECURSIVE GCD(_, _)
GCD(a, b) == IF b = 0 THEN a ELSE GCD(b, a % b)

\* Rationals n/d in lowest terms, d > 0.
Rat(n, d) ==
    LET g == GCD(Abs(n), Abs(d))
        s == IF d < 0 THEN -1 ELSE 1
    IN  [n |-> (s * n) \div g, d |-> (s * d) \div g]

RInt(a) == [n |-> a, d |-> 1]
RAdd(a, b) == Rat(a.n * b.d + b.n * a.d, a.d * b.d)
RSub(a, b) == Rat(a.n * b.d - b.n * a.d, a.d * b.d)
RMul(a, b) == Rat(a.n * b.n, a.d * b.d)
RDiv(a, b) == Rat(a.n * b.d, a.d * b.n)
RLeq(a, b) == a.n * b.d <= b.n * a.d
RLess(a, b) == a.n * b.d < b.n * a.d

\* float64 values: s * sqrt(q) (kind "fin"), +-infinity, or not-a-number.
FNaN == [k |-> "nan", s |-> 0, q |-> RInt(0)]
FInf(s) == [k |-> "inf", s |-> s, q |-> RInt(0)]
FRat(r) == [k |-> "fin", s |-> Sgn(r.n), q |-> RMul(r, r)]
FInt(a) == FRat(RInt(a))
\* s * sqrt(r) for a rational r >= 0
FSqrt(s, r) == [k |-> "fin", s |-> IF r.n = 0 THEN 0 ELSE s, q |-> r]
FNeg(x) == [x EXCEPT !.s = -x.s]
FAbs(x) == [x EXCEPT !.s = Abs(x.s)]

\* a / sqrt(v) in IEEE arithmetic, for rationals a and v >= 0:
\* 0/0 is nan, a/0 is +-inf.
DivSqrt(a, v) ==
    IF v.n = 0
    THEN IF a.n = 0 THEN FNaN ELSE FInf(Sgn(a.n))
    ELSE FSqrt(Sgn(a.n), RDiv(RMul(a, a), v))

\* a / b in IEEE arithmetic, for rationals a and b >= 0.
DivRat(a, b) ==
    IF b.n = 0
    THEN IF a.n = 0 THEN FNaN ELSE FInf(Sgn(a.n))
    ELSE FRat(RDiv(a, b))

\* An uninterpreted library result: routine f applied to the arguments a.
Term(f, a) == [k |-> "term", f |-> f, a |-> a]

\* -------------------------------------------------------- Python values

\* float(x), len(x) and comparisons give values of these Python types.
PyFloat(x) == [ty |-> "float", x |-> x]
PyInt(a) == [ty |-> "int", x |-> FInt(a)]
\* Mutant: the comparison result converted with float().
PyBool_float(x) == [ty |-> "float", x |-> x]

PyBool(x) == [ty |-> "bool", x |-> x]

\* ---------------------------------------------------------------- inputs

NaN == [na |-> TRUE, v |-> 0]
Num(a) == [na |-> FALSE, v |-> a]
Entries == {NaN} \cup {Num(a) : a \in Values}

\* A Python list (or 1-d array) of floats.
ListOf(items) == [kind |-> "list", items |-> items, index |-> <<>>]
\* A pandas Series: values with one index label each.
SeriesOf(items, index) == [kind |-> "series", items |-> items, index |-> index]

ItemsUpTo(n) == UNION {[1..m -> Entries] : m \in 0..n}

\* Lists, for the operations that read the values only.
ListSamples == {ListOf(it) : it \in ItemsUpTo(MaxLen)}

\* Lists, and Series whose labels do not start at 0 (a row selection of a
\* frame, as main.py passes them), for the operations that read the labels.
Samples ==
    ListSamples
    \cup {SeriesOf(it, [j \in 1..Len(it) |-> j]) : it \in ItemsUpTo(MaxLen) \ {<<>>}}

\* The samples descriptive_stats is called with: those above and the
\* one-element list [5].
DescriptiveSamples == Samples \cup {ListOf(<<Num(5)>>)}

\* ---------------------------------------------------------------- pandas

\* pd.Series(data): a list gets the labels 0..n-1, a Series keeps its own.
pd_Series(data) ==
    [j \in 1..Len(data.items) |->
        [i |-> IF data.kind = "series" THEN data.index[j] ELSE j - 1,
         e |-> data.items[j]]]

\* Mutant: a truthiness test in place of the missing-value test, which
\* drops zeros as well.
dropna_falsy(s) == SelectSeq(s, LAMBDA c : ~c.e.na /\ c.e.v # 0)

\* Series.dropna(): the cells that are not missing, labels kept.
dropna(s) == SelectSeq(s, LAMBDA c : ~c.e.na)

\* Series.iloc[:m]
iloc_head(s, m) == SubSeq(s, 1, m)

\* The values of a Series without missing cells, in order.
to_values(s) == [j \in 1..Len(s) |-> s[j].e.v]

labels(s) == {s[j].i : j \in 1..Len(s)}

RECURSIVE Sum(_)
Sum(xs) == IF xs = <<>> THEN 0 ELSE Head(xs) + Sum(Tail(xs))

SumSq(xs) == Sum([j \in 1..Len(xs) |-> xs[j] * xs[j]])

\* Series.mean() of n >= 1 values
Mean(xs) == Rat(Sum(xs), Len(xs))

\* Sum of squared deviations from the mean, n >= 1
SumSqDev(xs) == Rat(Len(xs) * SumSq(xs) - Sum(xs) * Sum(xs), Len(xs))

\* Series.std() ** 2, the sample (n-1) variance, n >= 2
Var(xs) == RDiv(SumSqDev(xs), RInt(Len(xs) - 1))

\* the population form (ddof = 0), which is 0 for a single value
Std_population(xs) ==
    IF Len(xs) < 1 THEN FNaN ELSE FSqrt(1, RDiv(SumSqDev(xs), RInt(Len(xs))))

\* Series.std(): not defined (NaN) for a single value
Std(xs) == IF Len(xs) < 2 THEN FNaN ELSE FSqrt(1, Var(xs))

\* scipy.stats.sem: std / sqrt(n)
Sem(xs) ==
    IF Len(xs) < 2 THEN FNaN ELSE FSqrt(1, RDiv(Var(xs), RInt(Len(xs))))

RECURSIVE Insert(_, _)
Insert(a, xs) ==
    IF xs = <<>> THEN <<a>>
    ELSE IF a <= Head(xs) THEN <<a>> \o xs
    ELSE <<Head(xs)>> \o Insert(a, Tail(xs))

RECURSIVE Sorted(_)
Sorted(xs) == IF xs = <<>> THEN <<>> ELSE Insert(Head(xs), Sorted(Tail(xs)))

\* Series.quantile(num/den), linear interpolation between order statistics
Quantile(xs, num, den) ==
    LET srt == Sorted(xs)
        h == (Len(xs) - 1) * num
        lo == h \div den
        fr == Rat(h % den, den)
    IN  IF fr.n = 0 THEN RInt(srt[lo + 1])
        ELSE RAdd(RInt(srt[lo + 1]),
                  RMul(fr, RInt(srt[lo + 2] - srt[lo + 1])))

Median(xs) == Quantile(xs, 1, 2)
Min(xs) == Sorted(xs)[1]
Max(xs) == Sorted(xs)[Len(xs)]

\* ------------------------------------------------------------- outcomes

Raise(exc, msg) == [status |-> "raised", exc |-> exc, msg |-> msg]
ReturnDict(d) == [status |-> "returned", py |-> "dict", value |-> d]
ReturnTuple(t) == [status |-> "returned", py |-> "tuple", value |-> t]

\* The raise statements of the module, one definition each.
err_empty == Raise("ValueError", "Cannot compute statistics on empty data")
err_all_nan == Raise("ValueError", "Data contains only NaN values")
err_ind_small == Raise("ValueError", "Each group must have at least 2 non-NaN values")
err_paired_small == Raise("ValueError", "Need at least 2 complete pairs for paired t-test")
err_anova_groups == Raise("ValueError", "ANOVA requires at least 2 groups")
err_anova_small == Raise("ValueError", "Each group must have at least 2 non-NaN values")
err_method == Raise("ValueError", "Method must be one of valid_methods")
err_corr_small == Raise("ValueError", "Need at least 2 complete pairs for correlation")
err_normality_small == Raise("ValueError", "Normality test requires at least 3 observations")
\* Mutant: the confidence check raising another exception type.
err_confidence_typeerror ==
    Raise("TypeError", "Confidence level must be between 0 and 1")

err_confidence == Raise("ValueError", "Confidence level must be between 0 and 1")
err_ci_small == Raise("ValueError", "Need at least 2 observations for confidence interval")

\* What a call leaves behind: its outcome and the samples (plain value
\* sequences) it handed to the numerical routines, none when it raised.
Ran(outcome, used) == [outcome |-> outcome, used |-> used]

\* --------------------------------------------------- descriptive_stats

\* the distance of the upper quartile from the median
iqr_value_from_median(series) ==
    RSub(Quantile(series, 3, 4), Quantile(series, 1, 2))

\* series.quantile(0.75) - series.quantile(0.25)
iqr_value(series) == RSub(Quantile(series, 3, 4), Quantile(series, 1, 4))

descriptive_stats(data) ==
    IF Len(data.items) = 0
    THEN Ran(err_empty, <<>>)
    ELSE
    LET series == to_values(dropna(pd_Series(data))) IN
    IF Len(series) = 0
    THEN Ran(err_all_nan, <<>>)
    ELSE Ran(ReturnDict(
            [n |-> PyInt(Len(series)),
             mean |-> PyFloat(FRat(Mean(series))),
             median |-> PyFloat(FRat(Median(series))),
             std |-> PyFloat(Std(series)),
             sem |-> PyFloat(Sem(series)),
             min |-> PyFloat(FInt(Min(series))),
             max |-> PyFloat(FInt(Max(series))),
             q1 |-> PyFloat(FRat(Quantile(series, 1, 4))),
             q3 |-> PyFloat(FRat(Quantile(series, 3, 4))),
             iqr |-> PyFloat(FRat(iqr_value(series)))]),
            <<series>>)

\* --------------------------------------------------- independent_t_test

\* scipy.stats.ttest_ind(a, b, equal_var): the statistic and the degrees of
\* freedom of its reference distribution, for n1, n2 >= 2.
ttest_ind(a, b, equal_var) ==
    LET n1 == Len(a)
        n2 == Len(b)
        diff == RSub(Mean(a), Mean(b))
        vn1 == RDiv(Var(a), RInt(n1))
        vn2 == RDiv(Var(b), RInt(n2))
        pooled == RDiv(RAdd(RMul(RInt(n1 - 1), Var(a)),
                            RMul(RInt(n2 - 1), Var(b))),
                       RInt(n1 + n2 - 2))
        welch_den == RAdd(RDiv(RMul(vn1, vn1), RInt(n1 - 1)),
                          RDiv(RMul(vn2, vn2), RInt(n2 - 1)))
        dof == IF equal_var THEN FInt(n1 + n2 - 2)
               ELSE IF welch_den.n = 0 THEN FInt(1)
               ELSE FRat(RDiv(RMul(RAdd(vn1, vn2), RAdd(vn1, vn2)), welch_den))
        se2 == IF equal_var THEN RMul(pooled, Rat(n1 + n2, n1 * n2))
               ELSE RAdd(vn1, vn2)
        tstat == DivSqrt(diff, se2)
    IN  [statistic |-> tstat, pvalue |-> Term("t.sf2", <<FAbs(tstat), dof>>)]

\* Mutant: one degree of freedom too many.
ind_df_off(n1, n2) == n1 + n2 - 1

\* df = len(group1_clean) + len(group2_clean) - 2
ind_df(n1, n2) == n1 + n2 - 2

\* pooled_std ** 2
pooled_var(g1, g2) ==
    RDiv(RAdd(RMul(RInt(Len(g1) - 1), Var(g1)),
              RMul(RInt(Len(g2) - 1), Var(g2))),
         RInt(ind_df(Len(g1), Len(g2))))

\* Mutant: the difference standardised by the first group's deviation only.
cohens_d_glass(g1, g2) == DivSqrt(RSub(Mean(g1), Mean(g2)), Var(g1))

\* cohens_d = (mean1 - mean2) / pooled_std
cohens_d(g1, g2) == DivSqrt(RSub(Mean(g1), Mean(g2)), pooled_var(g1, g2))

independent_t_test(group1, group2, equal_var) ==
    LET group1_clean == to_values(dropna(pd_Series(group1)))
        group2_clean == to_values(dropna(pd_Series(group2)))
    IN
    IF Len(group1_clean) < 2 \/ Len(group2_clean) < 2
    THEN Ran(err_ind_small,
             <<>>)
    ELSE
    LET res == ttest_ind(group1_clean, group2_clean, equal_var) IN
    Ran(ReturnDict(
            [t_statistic |-> PyFloat(res.statistic),
             p_value |-> PyFloat(res.pvalue),
             df |-> PyFloat(FInt(ind_df(Len(group1_clean), Len(group2_clean)))),
             cohens_d |-> PyFloat(cohens_d(group1_clean, group2_clean))]),
        <<group1_clean, group2_clean>>)

\* -------------------------------------------------------- paired_t_test

\* scipy.stats.ttest_rel(a, b): one-sample t statistic of the positional
\* differences a[j] - b[j], for two samples of the same length n >= 2.
ttest_rel(a, b) ==
    LET d == [j \in 1..Len(a) |-> a[j] - b[j]]
        tstat == DivSqrt(Mean(d), RDiv(Var(d), RInt(Len(d))))
    IN  [statistic |-> tstat,
         pvalue |-> Term("t.sf2", <<FAbs(tstat), FInt(Len(d) - 1)>>)]

\* (s1 - s2) of two Series without missing cells: pandas aligns on the
\* labels, and a label only one side has gives a missing difference.  These
\* are the differences that are not missing.
series_sub(s1, s2) ==
    LET both == SelectSeq(s1, LAMBDA c : c.i \in labels(s2))
        at(l) == (CHOOSE j \in 1..Len(s2) : s2[j].i = l)
    IN  [j \in 1..Len(both) |-> both[j].e.v - s2[at(both[j].i)].e.v]

\* Series.mean(), skipping missing cells: NaN when nothing is left
mean_skipna(xs) == IF Len(xs) = 0 THEN FNaN ELSE FRat(Mean(xs))

\* Mutant: the last min_len cells kept instead of the first.
paired_truncate_tail(s, min_len) == SubSeq(s, Len(s) - min_len + 1, Len(s))

\* before_clean.iloc[:min_len], after_clean.iloc[:min_len]
paired_truncate(s, min_len) == iloc_head(s, min_len)

\* float(min_len - 1)
paired_df(min_len) == min_len - 1

paired_t_test(before, after) ==
    LET before_all == dropna(pd_Series(before))
        after_all == dropna(pd_Series(after))
        min_len == IF Len(before_all) <= Len(after_all)
                   THEN Len(before_all) ELSE Len(after_all)
    IN
    IF min_len < 2
    THEN Ran(err_paired_small,
             <<>>)
    ELSE
    LET before_clean == paired_truncate(before_all, min_len)
        after_clean == paired_truncate(after_all, min_len)
        res == ttest_rel(to_values(before_clean), to_values(after_clean))
        mean_diff == mean_skipna(series_sub(after_clean, before_clean))
    IN
    Ran(ReturnDict(
            [t_statistic |-> PyFloat(res.statistic),
             p_value |-> PyFloat(res.pvalue),
             df |-> PyFloat(FInt(paired_df(min_len))),
             mean_diff |-> PyFloat(mean_diff)]),
        <<to_values(before_clean), to_values(after_clean)>>)

\* -------------------------------------------------------- one_way_anova

RECURSIVE SumRat(_)
SumRat(rs) == IF rs = <<>> THEN RInt(0) ELSE RAdd(Head(rs), SumRat(Tail(rs)))

RECURSIVE Concat(_)
Concat(gs) == IF gs = <<>> THEN <<>> ELSE Head(gs) \o Concat(Tail(gs))

\* Mutant: the within-groups mean square taken over N - 1.
f_oneway_dfwn_total(bign, k) == bign - 1

\* The within-groups degrees of freedom inside f_oneway, N - k.
f_oneway_dfwn(bign, k) == bign - k

\* scipy.stats.f_oneway(*groups): F = (SSB / (k-1)) / (SSW / (N-k)); with no
\* variation inside the groups it is inf, or nan if the groups also agree.
f_oneway(gs) ==
    LET k == Len(gs)
        alldata == Concat(gs)
        bign == Len(alldata)
        ssbn == SumRat([j \in 1..k |->
                    LET dv == RSub(Mean(gs[j]), Mean(alldata))
                    IN  RMul(RInt(Len(gs[j])), RMul(dv, dv))])
        sswn == SumRat([j \in 1..k |-> SumSqDev(gs[j])])
        msb == RDiv(ssbn, RInt(k - 1))
        msw == RDiv(sswn, RInt(f_oneway_dfwn(bign, k)))
        f == DivRat(msb, msw)
    IN  [statistic |-> f,
         pvalue |-> Term("f.sf", <<f, FInt(k - 1), FInt(bign - k)>>)]

\* total_n = sum(len(group) for group in clean_groups)
total_n(clean_groups) == Sum([j \in 1..Len(clean_groups) |-> Len(clean_groups[j])])

\* df_between = len(clean_groups) - 1
anova_df_between(clean_groups) == Len(clean_groups) - 1

\* Mutant: the total degrees of freedom reported as those within groups.
anova_df_within_total(clean_groups) == total_n(clean_groups) - 1

\* df_within = total_n - len(clean_groups)
anova_df_within(clean_groups) == total_n(clean_groups) - Len(clean_groups)

one_way_anova(groups) ==
    IF Len(groups) < 2
    THEN Ran(err_anova_groups, <<>>)
    ELSE
    LET clean_groups ==
            [j \in 1..Len(groups) |-> to_values(dropna(pd_Series(groups[j])))]
    IN
    IF \E j \in 1..Len(clean_groups) : Len(clean_groups[j]) < 2
    THEN Ran(err_anova_small,
             <<>>)
    ELSE
    LET res == f_oneway(clean_groups) IN
    Ran(ReturnDict(
            [f_statistic |-> PyFloat(res.statistic),
             p_value |-> PyFloat(res.pvalue),
             df_between |-> PyFloat(FInt(anova_df_between(clean_groups))),
             df_within |-> PyFloat(FInt(anova_df_within(clean_groups)))]),
        clean_groups)

\* ------------------------------------------------- correlation_analysis

valid_methods == {"pearson", "spearman", "kendall"}

\* Mutant: the cleaned samples zipped by position, labels ignored.
aligned_rows_zip(x_clean, y_clean) ==
    LET m == IF Len(x_clean) <= Len(y_clean) THEN Len(x_clean) ELSE Len(y_clean)
    IN  [x |-> to_values(SubSeq(x_clean, 1, m)),
         y |-> to_values(SubSeq(y_clean, 1, m))]

\* pd.DataFrame({"x": x_clean, "y": y_clean}).dropna(): one row per label of
\* either Series, a side without that label missing in the row; the rows
\* with both values stay.  (Labels are unique and increasing in each Series,
\* so the rows come in label order.)
aligned_rows(x_clean, y_clean) ==
    [x |-> to_values(SelectSeq(x_clean, LAMBDA c : c.i \in labels(y_clean))),
     y |-> to_values(SelectSeq(y_clean, LAMBDA c : c.i \in labels(x_clean)))]

\* stats.pearsonr / spearmanr / kendalltau, chosen by the method
corr_routine(method) ==
    IF method = "pearson" THEN "pearsonr"
    ELSE IF method = "spearman" THEN "spearmanr"
    ELSE "kendalltau"

correlation_analysis(x, y, method) ==
    IF method \notin valid_methods
    THEN Ran(err_method, <<>>)
    ELSE
    LET x_clean == dropna(pd_Series(x))
        y_clean == dropna(pd_Series(y))
        aligned_data == aligned_rows(x_clean, y_clean)
    IN
    IF Len(aligned_data.x) < 2
    THEN Ran(err_corr_small,
             <<>>)
    ELSE
    Ran(ReturnDict(
            [correlation |-> PyFloat(Term(corr_routine(method),
                                          <<"statistic", aligned_data.x, aligned_data.y>>)),
             p_value |-> PyFloat(Term(corr_routine(method),
                                      <<"pvalue", aligned_data.x, aligned_data.y>>)),
             n |-> PyInt(Len(aligned_data.x))]),
        <<aligned_data.x, aligned_data.y>>)

\* ------------------------------------------------------- normality_test

\* Mutant: the minimum of confidence_interval used for the normality test.
normality_too_few_as_ci(data_clean) == Len(data_clean) < 2

\* len(data_clean) < 3
normality_too_few(data_clean) == Len(data_clean) < 3

normality_test(data) ==
    LET data_clean == to_values(dropna(pd_Series(data))) IN
    IF normality_too_few(data_clean)
    THEN Ran(err_normality_small,
             <<>>)
    ELSE
    LET w_stat == Term("shapiro", <<"statistic", data_clean>>)
        p_value == Term("shapiro", <<"pvalue", data_clean>>)
    IN
    Ran(ReturnDict(
            [w_statistic |-> PyFloat(w_stat),
             p_value |-> PyFloat(p_value),
             is_normal |-> PyBool(Term("gt", <<p_value, Rat(5, 100)>>))]),
        <<data_clean>>)

\* -------------------------------------------------- confidence_interval

\* not 0 < confidence < 1
\* the closed interval: 0 and 1 accepted
confidence_invalid_closed(confidence) ==
    ~(RLeq(RInt(0), confidence) /\ RLeq(confidence, RInt(1)))

confidence_invalid(confidence) ==
    ~(RLess(RInt(0), confidence) /\ RLess(confidence, RInt(1)))

\* the same with the lower-tail quantile t.ppf((1 - confidence) / 2, n - 1)
ci_bound_lower_tail(xs, confidence, sign) ==
    [k |-> "mean+margin",
     mean |-> Mean(xs),
     sign |-> sign,
     sem |-> Sem(xs),
     crit |-> Term("t.ppf", <<RDiv(RSub(RInt(1), confidence), RInt(2)),
                              Len(xs) - 1>>)]

\* mean + sign * margin, margin = sem * t.ppf((1 + confidence) / 2, n - 1)
ci_bound(xs, confidence, sign) ==
    [k |-> "mean+margin",
     mean |-> Mean(xs),
     sign |-> sign,
     sem |-> Sem(xs),
     crit |-> Term("t.ppf", <<RDiv(RAdd(RInt(1), confidence), RInt(2)),
                              Len(xs) - 1>>)]

confidence_interval(data, confidence) ==
    IF confidence_invalid(confidence)
    THEN Ran(err_confidence, <<>>)
    ELSE
    LET data_clean == to_values(dropna(pd_Series(data))) IN
    IF Len(data_clean) < 2
    THEN Ran(err_ci_small,
             <<>>)
    ELSE
    Ran(ReturnTuple(<<PyFloat(ci_bound(data_clean, confidence, -1)),
                      PyFloat(ci_bound(data_clean, confidence, 1))>>),
        <<data_clean>>)

\* ----------------------------------------------------- argument domains

\* Group lists for one_way_anova: every way of cutting at most MaxTotal
\* entries into at most MaxGroups consecutive lists.  Cuts(n, k) are the cut
\* points of n entries into k lists, SplitAt the lists they give.
Cuts(n, k) ==
    {c \in [0..k -> 0..n] :
        /\ c[0] = 0
        /\ c[k] = n
        /\ \A j \in 1..k : c[j - 1] <= c[j]}

SplitAt(it, c, k) == [j \in 1..k |-> ListOf(SubSeq(it, c[j - 1] + 1, c[j]))]

Methods == valid_methods \cup {"cosine"}

Confidences == {Rat(-1, 2), RInt(0), Rat(1, 2), Rat(95, 100), RInt(1), Rat(3, 2)}

\* ------------------------------------------------------------ the machine

VARIABLES
    op,       \* the operation called last
    args,     \* the arguments it was called with
    used,     \* the samples it handed to the numerical routines
    outcome,  \* what it raised or returned
    caller    \* the caller's argument objects as the call left them

\* Calls made from several threads at once, each advancing statement by
\* statement.
VARIABLES
    heap,     \* the input objects the threads share
    pc,       \* per thread: where its call stands
    call,     \* per thread: the operation called and the inputs passed
    locals,   \* per frame: the cleaned Series bound to the local names
    result    \* per thread: what its call raised or returned

\* The loaders of data_loader.py and the commands of main.py, one run at
\* a time.
VARIABLES
    cmd,      \* the loader or command run last
    given,    \* its arguments and options
    reads,    \* how many times a reader (pd.read_csv, pd.read_excel) was called
    value,    \* what a loader returned or raised; what left a command
    stdout,   \* the lines a command wrote to standard output
    stderr,   \* the messages it wrote to standard error
    invoked,  \* the statistics and plot functions it called, in order
    rng       \* the process-wide generator of np.random: seed and position

statsvars == <<op, args, used, outcome, caller>>
threadvars == <<heap, pc, call, locals, result>>
clivars == <<cmd, given, reads, value, stdout, stderr, invoked, rng>>
vars == <<statsvars, threadvars, clivars>>

\* No loader or command has run.
CliIdle ==
    /\ cmd = "none"
    /\ given = <<>>
    /\ reads = 0
    /\ value = [status |-> "none"]
    /\ stdout = <<>>
    /\ stderr = <<>>
    /\ invoked = <<>>
    /\ rng = [seed |-> 0, pos |-> 0]

Threads == {1, 2}

\* No thread has called anything.
ThreadsIdle ==
    /\ pc = [t \in Threads |-> "idle"]
    /\ call = [t \in Threads |-> [fn |-> "none", refs |-> <<>>]]
    /\ locals = [t \in Threads |-> <<>>]
    /\ result = [t \in Threads |-> [status |-> "none"]]

Init ==
    /\ op = "none"
    /\ args = <<>>
    /\ used = <<>>
    /\ outcome = [status |-> "none"]
    /\ caller = <<>>
    /\ heap = <<>>
    /\ ThreadsIdle
    /\ CliIdle

\* A call starts from the idle state and runs to its end in one step.
Idle == op = "none"

\* The first argument after an in-place dropna on it.
dropped_inplace(data) ==
    LET kept == dropna(pd_Series(data)) IN
    IF data.kind = "series"
    THEN SeriesOf([j \in 1..Len(kept) |-> Num(kept[j].e.v)],
                  [j \in 1..Len(kept) |-> kept[j].i])
    ELSE ListOf([j \in 1..Len(kept) |-> Num(kept[j].e.v)])

\* the arguments had the cleaning been done in place on the first sample
caller_after_inplace(name, a) ==
    IF name = "one_way_anova" THEN a
    ELSE [a EXCEPT ![1] = dropped_inplace(a[1])]

\* The argument objects after a call: every operation works on
\* pd.Series(...).dropna() and .iloc[...], which build new objects, and
\* rebinds its local names only; none assigns into an argument.
caller_after(name, a) == a

Finish(name, a, ran) ==
    /\ op' = name
    /\ args' = a
    /\ used' = ran.used
    /\ outcome' = ran.outcome
    /\ caller' = caller_after(name, a)
    /\ UNCHANGED <<threadvars, clivars>>

DescriptiveStats ==
    /\ Idle
    /\ \E data \in DescriptiveSamples :
        Finish("descriptive_stats", <<data>>, descriptive_stats(data))

IndependentTTest ==
    /\ Idle
    /\ \E group1 \in ListSamples, group2 \in ListSamples, equal_var \in BOOLEAN :
        Finish("independent_t_test", <<group1, group2, equal_var>>,
               independent_t_test(group1, group2, equal_var))

\* The caller drops the outcome; the next call starts afresh.
Forget ==
    /\ op # "none"
    /\ op' = "none"
    /\ args' = <<>>
    /\ used' = <<>>
    /\ outcome' = [status |-> "none"]
    /\ caller' = <<>>
    /\ UNCHANGED <<threadvars, clivars>>

PairedTTest ==
    /\ Idle
    /\ \E before \in Samples, after \in Samples :
        Finish("paired_t_test", <<before, after>>, paired_t_test(before, after))

OneWayAnova ==
    /\ Idle
    /\ \E k \in 0..MaxGroups, it \in ItemsUpTo(MaxTotal) :
        /\ k = 0 => it = <<>>
        /\ \E c \in Cuts(Len(it), k) :
            LET groups == SplitAt(it, c, k)
            IN  Finish("one_way_anova", <<groups>>, one_way_anova(groups))

CorrelationAnalysis ==
    /\ Idle
    /\ \E x \in Samples, y \in Samples, method \in Methods :
        Finish("correlation_analysis", <<x, y, method>>,
               correlation_analysis(x, y, method))

NormalityTest ==
    /\ Idle
    /\ \E data \in Samples :
        Finish("normality_test", <<data>>, normality_test(data))

ConfidenceInterval ==
    /\ Idle
    /\ \E data \in Samples, confidence \in Confidences :
        Finish("confidence_interval", <<data, confidence>>,
               confidence_interval(data, confidence))

Next ==
    \/ DescriptiveStats
    \/ IndependentTTest
    \/ PairedTTest
    \/ OneWayAnova
    \/ CorrelationAnalysis
    \/ NormalityTest
    \/ ConfidenceInterval
    \/ Forget

Spec == Init /\ [][Next]_vars

\* ------------------------------------------------------ concurrent calls

\* The shared inputs: lists of up to MaxLen - 1 entries.
ThreadSamples == {ListOf(it) : it \in ItemsUpTo(MaxLen - 1)}

\* The calls a thread makes: descriptive_stats on either shared input,
\* paired_t_test on the two in either order.
ThreadCalls ==
    {[fn |-> "descriptive_stats", refs |-> <<i>>] : i \in {1, 2}}
    \cup {[fn |-> "paired_t_test", refs |-> r] : r \in {<<1, 2>>, <<2, 1>>}}

InitThreads ==
    /\ op = "none"
    /\ args = <<>>
    /\ used = <<>>
    /\ outcome = [status |-> "none"]
    /\ caller = <<>>
    /\ heap \in [1..2 -> ThreadSamples]
    /\ ThreadsIdle
    /\ CliIdle

\* one module-level slot used by every call
frame_of_module(t) == 1

\* The frame holding a call's local names (series, before_clean,
\* after_clean): each call has its own.
frame_of(t) == t

\* A Series object read back from its cells.
AsSeries(cells) ==
    SeriesOf([j \in 1..Len(cells) |-> cells[j].e],
             [j \in 1..Len(cells) |-> cells[j].i])

\* What a call computes from the cleaned Series its local names hold.
compute_from(fn, cleaned) ==
    IF fn = "descriptive_stats"
    THEN IF Len(cleaned[1]) = 0 THEN err_all_nan
         ELSE descriptive_stats(AsSeries(cleaned[1])).outcome
    ELSE paired_t_test(AsSeries(cleaned[1]), AsSeries(cleaned[2])).outcome

\* A thread enters an operation with references to shared inputs.
Call(t) ==
    /\ pc[t] = "idle"
    /\ \E c \in ThreadCalls : call' = [call EXCEPT ![t] = c]
    /\ pc' = [pc EXCEPT ![t] = "called"]
    /\ UNCHANGED <<statsvars, clivars, heap, locals, result>>

\* The emptiness check of descriptive_stats, then
\* pd.Series(...).dropna() of each input, bound to the local names.
CleanInputs(t) ==
    /\ pc[t] = "called"
    /\ IF call[t].fn = "descriptive_stats"
          /\ Len(heap[call[t].refs[1]].items) = 0
       THEN /\ result' = [result EXCEPT ![t] = err_empty]
            /\ pc' = [pc EXCEPT ![t] = "done"]
            /\ UNCHANGED locals
       ELSE /\ locals' = [locals EXCEPT ![frame_of(t)] =
                    [r \in 1..Len(call[t].refs) |->
                        dropna(pd_Series(heap[call[t].refs[r]]))]]
            /\ pc' = [pc EXCEPT ![t] = "cleaned"]
            /\ UNCHANGED result
    /\ UNCHANGED <<statsvars, clivars, heap, call>>

\* The size checks and the computation on the local names, to the return
\* or raise.
Compute(t) ==
    /\ pc[t] = "cleaned"
    /\ result' = [result EXCEPT ![t] =
                    compute_from(call[t].fn, locals[frame_of(t)])]
    /\ pc' = [pc EXCEPT ![t] = "done"]
    /\ UNCHANGED <<statsvars, clivars, heap, call, locals>>

\* The caller takes the result; the frame is gone.
Return(t) ==
    /\ pc[t] = "done"
    /\ pc' = [pc EXCEPT ![t] = "idle"]
    /\ call' = [call EXCEPT ![t] = [fn |-> "none", refs |-> <<>>]]
    /\ locals' = [locals EXCEPT ![frame_of(t)] = <<>>]
    /\ result' = [result EXCEPT ![t] = [status |-> "none"]]
    /\ UNCHANGED <<statsvars, clivars, heap>>

NextThreads ==
    \E t \in Threads :
        \/ Call(t)
        \/ CleanInputs(t)
        \/ Compute(t)
        \/ Return(t)

SpecThreads == InitThreads /\ [][NextThreads]_vars

\* ------------------------------------------------------------ data_loader

MaxRows == 3

\* A cell of the grouping column: a name or a missing entry.
Label(name) == [na |-> FALSE, name |-> name]
NaLabel == [na |-> TRUE, name |-> ""]
Labels == {NaLabel} \cup {Label(name) : name \in {"a", "b", "c"}}

\* A table row: a cell of the text column "g" and one of the numeric
\* column "v".
Rows == [g : Labels, v : {Num(a) : a \in Values}]

\* What is at a path: nothing, something the reader fails on, or a table
\* with its column names and rows.
Missing == [state |-> "missing", columns |-> <<>>, rows |-> <<>>]
Unreadable == [state |-> "unreadable", columns |-> <<>>, rows |-> <<>>]
Table(columns, rows) == [state |-> "table", columns |-> columns, rows |-> rows]

\* The required_columns argument: None or a list of names.
None == [none |-> TRUE, names |-> <<>>]
Names(names) == [none |-> FALSE, names |-> names]

SeqHas(seq, x) == \E j \in 1..Len(seq) : seq[j] = x

ReturnFrame(df) == [status |-> "returned", py |-> "DataFrame", value |-> df]

\* What a loader leaves behind: its outcome and the number of reads made.
Loaded(out, n) == [outcome |-> out, reads |-> n]

\* The raise statements of the loaders; format is "CSV" or "Excel".
err_not_found(format) == Raise("FileNotFoundError", <<format, "file not found">>)
err_read(format) == Raise("ValueError", <<"Error reading", format, "file">>)
err_missing_columns(missing) ==
    Raise("ValueError", <<"Missing required columns", missing>>)

\* no column is ever reported missing
missing_columns_none(required_columns, columns) == <<>>

\* [col for col in required_columns if col not in df.columns]
missing_columns(required_columns, columns) ==
    SelectSeq(required_columns.names, LAMBDA col : ~SeqHas(columns, col))

\* `if required_columns:` and the check under it
check_required(df, required_columns) ==
    IF ~required_columns.none /\ Len(required_columns.names) > 0
    THEN LET missing == missing_columns(required_columns, df.columns) IN
         IF Len(missing) > 0
         THEN err_missing_columns(missing)
         ELSE ReturnFrame(df)
    ELSE ReturnFrame(df)

load_csv_data(file, required_columns) ==
    IF file.state = "missing"
    THEN Loaded(err_not_found("CSV"), 0)
    ELSE IF file.state = "unreadable"
    THEN Loaded(err_read("CSV"), 1)
    ELSE Loaded(check_required(file, required_columns), 1)

\* The table is on sheet 0; reading any other sheet fails.
load_excel_data(file, sheet_name, required_columns) ==
    IF file.state = "missing"
    THEN Loaded(err_not_found("Excel"), 0)
    ELSE IF file.state = "unreadable" \/ sheet_name # 0
    THEN Loaded(err_read("Excel"), 1)
    ELSE Loaded(check_required(file, required_columns), 1)

\* Argument domains of the loaders.
LoaderFiles ==
    {Missing, Unreadable}
    \cup {Table(<<"g", "v">>, rows) : rows \in {<<>>} \cup [1..1 -> Rows]}
RequiredColumns ==
    {None} \cup {Names(names) : names \in
        {<<>>, <<"v">>, <<"zz">>, <<"g", "v">>, <<"zz", "v", "yy">>}}
Sheets == {0, 1}

\* A loader or command starts from the idle state and runs to its end in
\* one step.
NothingRun == cmd = "none"

FinishLoad(name, a, ld) ==
    /\ cmd' = name
    /\ given' = a
    /\ reads' = ld.reads
    /\ value' = ld.outcome
    /\ UNCHANGED <<stdout, stderr, invoked, rng>>
    /\ UNCHANGED <<statsvars, threadvars>>

LoadCsvData ==
    /\ NothingRun
    /\ \E file \in LoaderFiles, required_columns \in RequiredColumns :
        FinishLoad("load_csv_data", <<file, required_columns>>,
                   load_csv_data(file, required_columns))

LoadExcelData ==
    /\ NothingRun
    /\ \E file \in LoaderFiles, sheet_name \in Sheets,
          required_columns \in RequiredColumns :
        FinishLoad("load_excel_data", <<file, required_columns, sheet_name>>,
                   load_excel_data(file, sheet_name, required_columns))

\* The generator as the process finds it before anything seeds it is
\* written seed 0, position 0; a state is the seed of the stream and the
\* number of variates taken from it.

\* the seeding left out: the generator stays as found
np_random_seed_skipped(state, seed) == state

\* np.random.seed(seed)
np_random_seed(state, seed) == [seed |-> seed, pos |-> 0]

\* The n variates of one np.random call from a generator state: each is a
\* fixed function of the seed and its position in the stream.  For
\* np.random.choice the function picks one of the given values.
variates(fn, state, n) ==
    [i \in 1..n |->
        IF fn = "choice"
        THEN <<"A", "B", "C">>[((state.seed + 2 * (state.pos + i)) % 3) + 1]
        ELSE [fn |-> fn, seed |-> state.seed, at |-> state.pos + i - 1]]

\* The frame create_sample_data returns and the generator it leaves.
create_sample_data(size, state) ==
    LET s0 == np_random_seed(state, 42)
        s1 == [s0 EXCEPT !.pos = s0.pos + size]
        s2 == [s1 EXCEPT !.pos = s1.pos + size]
        s3 == [s2 EXCEPT !.pos = s2.pos + size]
    IN  [data |-> [group |-> variates("choice", s0, size),
                   measurement_1 |-> variates("normal", s1, size),
                   measurement_2 |-> variates("lognormal", s2, size),
                   time_point |-> [i \in 1..size |-> i - 1]],
         rng |-> s3]

\* Calls in one process follow one another on the same generator.
CreateSampleData ==
    /\ cmd \in {"none", "np.random", "create_sample_data"}
    /\ \E size \in 0..MaxLen :
        /\ cmd' = "create_sample_data"
        /\ given' = <<size, rng>>
        /\ value' = ReturnFrame(create_sample_data(size, rng).data)
        /\ rng' = create_sample_data(size, rng).rng
    /\ UNCHANGED <<reads, stdout, stderr, invoked>>
    /\ UNCHANGED <<statsvars, threadvars>>

\* Other use of np.random in the process: n variates drawn, after a
\* seeding of the caller's or without one (seed 0).
RandomDraw ==
    /\ cmd \in {"none", "np.random", "create_sample_data"}
    /\ rng.pos < MaxTotal
    /\ \E seed \in {0, 7, 42}, n \in 1..2 :
        LET from == IF seed = 0 THEN rng ELSE np_random_seed(rng, seed) IN
        /\ cmd' = "np.random"
        /\ given' = <<seed, n, rng>>
        /\ value' = ReturnFrame(variates("normal", from, n))
        /\ rng' = [from EXCEPT !.pos = from.pos + n]
    /\ UNCHANGED <<reads, stdout, stderr, invoked>>
    /\ UNCHANGED <<statsvars, threadvars>>

\* The process ends; the next run starts afresh.
Exit ==
    /\ cmd # "none"
    /\ cmd' = "none"
    /\ given' = <<>>
    /\ reads' = 0
    /\ value' = [status |-> "none"]
    /\ stdout' = <<>>
    /\ stderr' = <<>>
    /\ invoked' = <<>>
    /\ rng' = [seed |-> 0, pos |-> 0]
    /\ UNCHANGED <<statsvars, threadvars>>

\* ------------------------------------------------------------------ main

\* The value of a command that ended: nothing propagated.
ReturnNone == [status |-> "returned", py |-> "None", value |-> "None"]

\* A message on standard error: its text and the exception it formats.
Message(text) == [text |-> text, e |-> [status |-> "none"]]
ErrorMessage(text, e) == [text |-> text, e |-> e]

\* A function the command called, with its arguments.
Invoked(fn, a) == [fn |-> fn, args |-> a]

\* What a command leaves behind.
Ended(r, out, err, inv) ==
    [reads |-> r, stdout |-> out, stderr |-> err, invoked |-> inv,
     value |-> ReturnNone]

\* a handler for ValueError only
caught_value_error(e) == e.exc = "ValueError"

\* `except Exception as e`: every error the body raises is caught.
caught(e) == TRUE

\* The except clause of a command: one message on standard error, or the
\* exception leaving the command when the clause does not catch it.
Handled(text, e, r, out, inv) ==
    IF caught(e)
    THEN Ended(r, out, <<ErrorMessage(text, e)>>, inv)
    ELSE [reads |-> r, stdout |-> out, stderr |-> <<>>, invoked |-> inv,
          value |-> e]

\* The loader a command picks by --file-type.
load_by_type(file_type, file, sheet, required_columns) ==
    IF file_type = "csv"
    THEN load_csv_data(file, required_columns)
    ELSE load_excel_data(file, sheet, required_columns)

\* df[name]: the cells of a column.
column(df, name) == [j \in 1..Len(df.rows) |-> df.rows[j][name]]

\* Series.unique(): the distinct cells in order of first appearance, a
\* missing cell being one of them.
RECURSIVE unique(_)
unique(cells) ==
    IF cells = <<>> THEN <<>>
    ELSE LET u == unique(SubSeq(cells, 1, Len(cells) - 1))
             last == cells[Len(cells)]
         IN  IF SeqHas(u, last) THEN u ELSE Append(u, last)

\* df[df[group_col] == group][value_col]: the value cells of the rows
\* whose group cell equals group, under their row labels 0..n-1.  A
\* missing cell equals nothing, itself included.
select_group(df, group_col, group, value_col) ==
    LET at == SelectSeq([j \in 1..Len(df.rows) |-> j],
                        LAMBDA j : /\ ~df.rows[j][group_col].na
                                   /\ ~group.na
                                   /\ df.rows[j][group_col] = group)
    IN  SeriesOf([k \in 1..Len(at) |-> df.rows[at[k]][value_col]],
                 [k \in 1..Len(at) |-> at[k] - 1])

\* The columns select_dtypes(include=["number"]) keeps.
numeric_columns(df) == SelectSeq(df.columns, LAMBDA c : c \in {"v", "w"})

load_data(file, file_type, sheet) ==
    LET ld == load_by_type(file_type, file, sheet, None)
        out1 == <<"Loading data from">>
    IN
    IF ld.outcome.status = "raised"
    THEN Handled("Error loading data", ld.outcome, ld.reads, out1, <<>>)
    ELSE
    LET df == ld.outcome.value
        out2 == out1 \o <<"Successfully loaded data with shape",
                          "Column names", "Data types", "First 5 rows">>
        numeric_cols == numeric_columns(df)
    IN
    IF Len(numeric_cols) > 0
    THEN Ended(ld.reads, out2 \o <<"Data validation results">>, <<>>,
               <<Invoked("validate_numeric_data", <<df, numeric_cols>>)>>)
    ELSE Ended(ld.reads, out2, <<>>, <<>>)

analyze_column(file, file_type, sheet, col) ==
    LET ld == load_by_type(file_type, file, sheet, Names(<<col>>))
        out1 == <<"Analyzing column">>
    IN
    IF ld.outcome.status = "raised"
    THEN Handled("Error analyzing data", ld.outcome, ld.reads, out1, <<>>)
    ELSE
    LET df == ld.outcome.value IN
    IF ~SeqHas(df.columns, col)
    THEN Ended(ld.reads, out1, <<Message("Column not found in data")>>, <<>>)
    ELSE
    LET data == SeriesOf(column(df, col),
                         [j \in 1..Len(df.rows) |-> j - 1])
        stats == descriptive_stats(data).outcome
        inv1 == <<Invoked("descriptive_stats", <<data>>)>>
    IN
    IF stats.status = "raised"
    THEN Handled("Error analyzing data", stats, ld.reads, out1, inv1)
    ELSE
    LET out2 == out1 \o <<"Descriptive statistics for", "n", "mean", "median",
                          "std", "sem", "min", "max", "q1", "q3", "iqr">>
        normality == normality_test(data).outcome
        inv2 == Append(inv1, Invoked("normality_test", <<data>>))
    IN
    IF normality.status = "raised"
    THEN Handled("Error analyzing data", normality, ld.reads, out2, inv2)
    ELSE
    LET out3 == out2 \o <<"Normality test (Shapiro-Wilk)", "W-statistic",
                          "p-value", "Is normal">>
        again == descriptive_stats(data).outcome
        inv3 == Append(inv2, Invoked("descriptive_stats", <<data>>))
    IN
    IF "ci_95" \in DOMAIN again.value
    THEN Ended(ld.reads, Append(out3, "95% CI"), <<>>, inv3)
    ELSE Ended(ld.reads, out3, <<>>, inv3)

compare_groups(file, file_type, sheet, group_col, value_col) ==
    LET ld == load_by_type(file_type, file, sheet,
                           Names(<<group_col, value_col>>))
        out1 == <<"Comparing groups">>
    IN
    IF ld.outcome.status = "raised"
    THEN Handled("Error comparing groups", ld.outcome, ld.reads, out1, <<>>)
    ELSE
    LET df == ld.outcome.value
        groups == unique(column(df, group_col))
        out2 == Append(out1, "Groups found")
        data(j) == select_group(df, group_col, groups[j], value_col)
    IN
    IF Len(groups) = 2
    THEN LET t_test == independent_t_test(data(1), data(2), TRUE).outcome
             inv == <<Invoked("independent_t_test", <<data(1), data(2)>>)>>
         IN  IF t_test.status = "raised"
             THEN Handled("Error comparing groups", t_test, ld.reads, out2, inv)
             ELSE Ended(ld.reads,
                        out2 \o <<"Independent t-test results", "t-statistic",
                                  "p-value", "Cohen's d">>,
                        <<>>, inv)
    ELSE IF Len(groups) > 2
    THEN LET group_data == [j \in 1..Len(groups) |-> data(j)]
             anova == one_way_anova(group_data).outcome
             inv == <<Invoked("one_way_anova", <<group_data>>)>>
         IN  IF anova.status = "raised"
             THEN Handled("Error comparing groups", anova, ld.reads, out2, inv)
             ELSE Ended(ld.reads,
                        out2 \o <<"One-way ANOVA results", "F-statistic",
                                  "p-value", "DF between", "DF within">>,
                        <<>>, inv)
    ELSE Ended(ld.reads, out2,
               <<Message("Need at least 2 groups for comparison")>>, <<>>)

\* The plot function of a --plot-type, none when the option is omitted.
plot_function(plot_type) ==
    CASE plot_type = "scatter" -> "create_scatter_plot"
      [] plot_type = "line" -> "create_line_plot"
      [] plot_type = "bar" -> "create_bar_plot"
      [] plot_type = "box" -> "create_box_plot"
      [] OTHER -> "none"

\* error is what the plotting library raises in the call, if anything.
create_plot(file, file_type, sheet, x_col, y_col, plot_type, hue_col, output, error) ==
    LET required_cols == IF hue_col # "None" THEN <<x_col, y_col, hue_col>>
                         ELSE <<x_col, y_col>>
        ld == load_by_type(file_type, file, sheet, Names(required_cols))
        out1 == <<"Creating plot from">>
    IN
    IF ld.outcome.status = "raised"
    THEN Handled("Error creating plot", ld.outcome, ld.reads, out1, <<>>)
    ELSE
    LET df == ld.outcome.value
        fn == plot_function(plot_type)
        inv == IF fn = "none" THEN <<>>
               ELSE <<Invoked(fn, <<df, x_col, y_col, hue_col, output>>)>>
    IN
    IF fn # "none" /\ error.status = "raised"
    THEN Handled("Error creating plot", error, ld.reads, out1, inv)
    ELSE IF output # "None"
    THEN Ended(ld.reads, Append(out1, "Plot saved to"), <<>>, inv)
    ELSE Ended(ld.reads, Append(out1, "Plot created successfully"), <<>>, inv)

correlation_matrix(file, file_type, sheet, output, error) ==
    LET ld == load_by_type(file_type, file, sheet, None)
        out1 == <<"Creating correlation matrix from">>
    IN
    IF ld.outcome.status = "raised"
    THEN Handled("Error creating correlation matrix", ld.outcome, ld.reads,
                 out1, <<>>)
    ELSE
    LET df == ld.outcome.value
        numeric_cols == numeric_columns(df)
    IN
    IF Len(numeric_cols) < 2
    THEN Ended(ld.reads, out1,
               <<Message("Need at least 2 numeric columns for correlation matrix")>>,
               <<>>)
    ELSE
    LET out2 == Append(out1, "Numeric columns")
        inv == <<Invoked("create_correlation_heatmap",
                         <<df, numeric_cols, output>>)>>
    IN
    IF error.status = "raised"
    THEN Handled("Error creating correlation matrix", error, ld.reads, out2, inv)
    ELSE Ended(ld.reads,
               (IF output # "None"
                THEN Append(out2, "Correlation heatmap saved to") ELSE out2)
               \o <<"Correlation matrix values">>,
               <<>>, inv)

\* The result maps of validate_numeric_data, over frames of the
\* numeric columns "v" and "w" whose cells are finite or missing.
\* columns is None or a list of names; a name that is not a column is
\* skipped, and the outliers entry is made only under
\* `if len(series) > 1`.
validate_numeric_data(df, columns) ==
    LET cols == IF columns.none THEN numeric_columns(df) ELSE columns.names
        present == {cols[j] : j \in {i \in 1..Len(cols) :
                                        SeqHas(df.columns, cols[i])}}
        xs(c) == to_values(dropna(pd_Series(ListOf(column(df, c)))))
        beyond(c) ==
            IF Len(xs(c)) < 2 \/ Var(xs(c)).n = 0 THEN 0
            ELSE Cardinality({j \in 1..Len(xs(c)) :
                    RLess(RMul(RInt(9), Var(xs(c))),
                          RMul(RSub(RInt(xs(c)[j]), Mean(xs(c))),
                               RSub(RInt(xs(c)[j]), Mean(xs(c)))))})
    IN  ReturnDict(
            [missing_values |->
                [c \in present |->
                    Cardinality({j \in 1..Len(df.rows) : df.rows[j][c].na})],
             infinite_values |-> [c \in present |-> 0],
             outliers |->
                [c \in (IF Len(df.rows) > 1 THEN present ELSE {}) |->
                    beyond(c)]])

ValidateNumericData ==
    /\ NothingRun
    /\ \E rows \in UNION {[1..m -> [v : Entries, w : {NaN, Num(1)}]] :
                              m \in 0..MaxRows},
          columns \in {None} \cup {Names(names) : names \in
                        {<<>>, <<"v">>, <<"w", "v">>, <<"zz", "v">>}} :
        FinishLoad("validate_numeric_data",
                   <<Table(<<"v", "w">>, rows), columns>>,
                   Loaded(validate_numeric_data(Table(<<"v", "w">>, rows),
                                                columns), 0))

\* Argument domains of the commands.  click.Path(exists=True) lets a
\* command start only on a path that exists.
GroupFiles ==
    {Unreadable}
    \cup {Table(<<"g", "v">>, rows) :
            rows \in UNION {[1..m -> Rows] : m \in 0..MaxRows}}

\* Tables of one row at most, with no numeric column, one, or two.
OneRow(columns) ==
    [c \in {columns[j] : j \in 1..Len(columns)} |->
        IF c = "g" THEN Label("a") ELSE Num(1)]
SmallFiles ==
    {Unreadable}
    \cup {Table(columns, rows) :
            columns \in {<<"g">>, <<"g", "v">>, <<"g", "v", "w">>},
            rows \in {<<>>}}
    \cup {Table(columns, <<OneRow(columns)>>) :
            columns \in {<<"g">>, <<"g", "v">>, <<"g", "v", "w">>}}
Outputs == {"None", "out.png"}

\* What the plotting library may do in a call: return, or raise.
LibraryErrors ==
    {[status |-> "none"],
     Raise("ValueError", "could not convert string to float"),
     Raise("OSError", "cannot write the figure")}

FinishCommand(name, a, run) ==
    /\ cmd' = name
    /\ given' = a
    /\ reads' = run.reads
    /\ value' = run.value
    /\ stdout' = run.stdout
    /\ stderr' = run.stderr
    /\ invoked' = run.invoked
    /\ UNCHANGED rng
    /\ UNCHANGED <<statsvars, threadvars>>

LoadData ==
    /\ NothingRun
    /\ \E file \in SmallFiles, file_type \in {"csv", "excel"}, sheet \in Sheets :
        FinishCommand("load_data", <<file, file_type, sheet>>,
                      load_data(file, file_type, sheet))

AnalyzeColumn ==
    /\ NothingRun
    /\ \E file \in GroupFiles, file_type \in {"csv", "excel"}, col \in {"v", "zz"} :
        FinishCommand("analyze_column", <<file, file_type, 0, col>>,
                      analyze_column(file, file_type, 0, col))

CompareGroups ==
    /\ NothingRun
    /\ \E file \in GroupFiles, file_type \in {"csv", "excel"},
          cols \in {<<"g", "v">>, <<"zz", "v">>, <<"g", "zz">>} :
        FinishCommand("compare_groups", <<file, file_type, 0, cols[1], cols[2]>>,
                      compare_groups(file, file_type, 0, cols[1], cols[2]))

CreatePlot ==
    /\ NothingRun
    /\ \E file \in SmallFiles, file_type \in {"csv", "excel"}, x_col \in {"g", "zz"},
          plot_type \in {"None", "scatter", "line", "bar", "box"},
          hue_col \in {"None", "g"}, output \in Outputs,
          error \in LibraryErrors :
        FinishCommand("create_plot",
                      <<file, file_type, 0, x_col, "v", plot_type, hue_col,
                        output, error>>,
                      create_plot(file, file_type, 0, x_col, "v", plot_type,
                                  hue_col, output, error))

CorrelationMatrix ==
    /\ NothingRun
    /\ \E file \in SmallFiles, file_type \in {"csv", "excel"}, sheet \in Sheets,
          output \in Outputs, error \in LibraryErrors :
        FinishCommand("correlation_matrix",
                      <<file, file_type, sheet, output, error>>,
                      correlation_matrix(file, file_type, sheet, output, error))

NextCli ==
    \/ LoadCsvData
    \/ LoadExcelData
    \/ LoadData
    \/ AnalyzeColumn
    \/ CompareGroups
    \/ CreatePlot
    \/ CorrelationMatrix
    \/ ValidateNumericData
    \/ CreateSampleData
    \/ RandomDraw
    \/ Exit

SpecCli == Init /\ [][NextCli]_vars

\* ================================================================ claims

\* The non-missing observations of a raw input, in order, read off the
\* input itself.
RECURSIVE Clean(_)
Clean(items) ==
    IF items = <<>> THEN <<>>
    ELSE IF Head(items).na THEN Clean(Tail(items))
    ELSE <<Head(items).v>> \o Clean(Tail(items))

CleanOf(data) == Clean(data.items)

\* The index label of the j-th entry of an input.
LabelOf(data, j) == IF data.kind = "series" THEN data.index[j] ELSE j - 1

\* The labels at which an input holds an observation.
PresentLabels(data) ==
    {LabelOf(data, j) : j \in {i \in 1..Len(data.items) : ~data.items[i].na}}

\* Aligned pairs of two inputs: labels with an observation on both sides.
AlignedCount(x, y) == Cardinality(PresentLabels(x) \cap PresentLabels(y))

Least(a, b) == IF a <= b THEN a ELSE b

Raised == outcome.status = "raised"
Returned == outcome.status = "returned"

\* The number of cleaned observations an operation is short of its minimum.
TooFew ==
    CASE op = "descriptive_stats" -> Len(CleanOf(args[1])) < 1
      [] op = "independent_t_test" ->
            Len(CleanOf(args[1])) < 2 \/ Len(CleanOf(args[2])) < 2
      [] op = "paired_t_test" ->
            Least(Len(CleanOf(args[1])), Len(CleanOf(args[2]))) < 2
      [] op = "one_way_anova" ->
            \/ Len(args[1]) < 2
            \/ \E j \in 1..Len(args[1]) : Len(CleanOf(args[1][j])) < 2
      [] op = "correlation_analysis" -> AlignedCount(args[1], args[2]) < 2
      [] op = "normality_test" -> Len(CleanOf(args[1])) < 3
      [] op = "confidence_interval" -> Len(CleanOf(args[1])) < 2
      [] OTHER -> FALSE

\* The parameters besides the samples are valid.
ValidParameters ==
    CASE op = "correlation_analysis" -> args[3] \in {"pearson", "spearman", "kendall"}
      [] op = "confidence_interval" ->
            0 < args[2].n /\ args[2].n < args[2].d
      [] OTHER -> TRUE

\* C1: with valid parameters, every operation raises (and hands back no
\* result, having computed nothing) exactly when its cleaned observation
\* count is below its minimum, and returns a result otherwise.
C1_MinimumDecides ==
    (op # "none" /\ ValidParameters) =>
        /\ Raised \/ Returned
        /\ Raised <=> TooFew
        /\ Raised => used = <<>> /\ "value" \notin DOMAIN outcome
        /\ Returned => "value" \in DOMAIN outcome

\* C1 witness: the normality test refuses two observations, a count every
\* other operation but it accepts.
C1_Witness ==
    /\ op = "normality_test"
    /\ Len(CleanOf(args[1])) = 2
    /\ Raised

\* Every kind of precondition violation the module checks.
PreconditionViolated == op # "none" /\ (TooFew \/ ~ValidParameters)

\* C2 (as stated): every precondition violation is signaled with the
\* domain error type InsufficientDataError.
C2_DomainErrorType ==
    PreconditionViolated =>
        Raised /\ outcome.exc = "InsufficientDataError"

\* C2 (amended): every precondition violation is signaled by raising the
\* built-in ValueError, and nothing else is ever raised.
C2_ValueErrorOnly ==
    /\ PreconditionViolated => Raised
    /\ Raised => outcome.exc = "ValueError"

\* C2 witness: a confidence level of exactly 1 on a sample that is large
\* enough is refused with ValueError.
C2_Witness ==
    /\ op = "confidence_interval"
    /\ args[2] = RInt(1)
    /\ ~TooFew
    /\ Raised
    /\ outcome.exc = "ValueError"

\* The input samples of the call, in argument order.
InputSamples ==
    CASE op = "one_way_anova" -> args[1]
      [] op \in {"independent_t_test", "paired_t_test", "correlation_analysis"} ->
            <<args[1], args[2]>>
      [] op = "none" -> <<>>
      [] OTHER -> <<args[1]>>

Prefix(xs, m) == [j \in 1..m |-> xs[j]]

\* The observations of x at the labels where y holds an observation too.
RECURSIVE AlignedFrom(_, _, _)
AlignedFrom(x, y, j) ==
    IF j > Len(x.items) THEN <<>>
    ELSE IF ~x.items[j].na /\ LabelOf(x, j) \in PresentLabels(y)
    THEN <<x.items[j].v>> \o AlignedFrom(x, y, j + 1)
    ELSE AlignedFrom(x, y, j + 1)

AlignedValues(x, y) == AlignedFrom(x, y, 1)

HasMissing(data) == \E j \in 1..Len(data.items) : data.items[j].na

\* C3 (as stated): in every operation the sample used in the computation
\* is exactly the non-missing entries of the input, in order.
C3_UsedIsAllNonMissing ==
    Returned =>
        /\ Len(used) = Len(InputSamples)
        /\ \A j \in 1..Len(used) : used[j] = CleanOf(InputSamples[j])

\* C3 (amended): that holds for descriptive_stats, independent_t_test,
\* one_way_anova, normality_test and confidence_interval; paired_t_test
\* uses only the first min(len, len) non-missing entries of each sample, and
\* correlation_analysis only the non-missing entries whose label holds an
\* observation in the other sample too (order kept in both).
C3_UsedIsCleanedThenCut ==
    Returned =>
        /\ Len(used) = Len(InputSamples)
        /\ CASE op = "paired_t_test" ->
                LET m == Least(Len(CleanOf(args[1])), Len(CleanOf(args[2])))
                IN  \A j \in 1..2 : used[j] = Prefix(CleanOf(InputSamples[j]), m)
             [] op = "correlation_analysis" ->
                /\ used[1] = AlignedValues(args[1], args[2])
                /\ used[2] = AlignedValues(args[2], args[1])
             [] OTHER ->
                \A j \in 1..Len(used) : used[j] = CleanOf(InputSamples[j])

\* C3 witness: a t-test on a sample with a missing entry in the middle and
\* a zero among its observations.
C3_Witness ==
    /\ op = "independent_t_test"
    /\ Returned
    /\ Len(args[1].items) = 3
    /\ args[1].items[2].na
    /\ args[1].items[1] = Num(0)
    /\ used[1] = <<0, args[1].items[3].v>>

ExpectedKeys ==
    CASE op = "descriptive_stats" ->
            {"n", "mean", "median", "std", "sem", "min", "max", "q1", "q3", "iqr"}
      [] op = "independent_t_test" -> {"t_statistic", "p_value", "df", "cohens_d"}
      [] op = "paired_t_test" -> {"t_statistic", "p_value", "df", "mean_diff"}
      [] op = "one_way_anova" -> {"f_statistic", "p_value", "df_between", "df_within"}
      [] op = "correlation_analysis" -> {"correlation", "p_value", "n"}
      [] op = "normality_test" -> {"w_statistic", "p_value", "is_normal"}
      [] op = "confidence_interval" -> {"lower_bound", "upper_bound"}
      [] OTHER -> {}

\* C4 (as stated): every successful operation returns a mapping with
\* exactly the listed keys, each value a float, is_normal a boolean.
C4_FloatMapping ==
    Returned =>
        /\ outcome.py = "dict"
        /\ DOMAIN outcome.value = ExpectedKeys
        /\ \A key \in DOMAIN outcome.value :
              outcome.value[key].ty = IF key = "is_normal" THEN "bool" ELSE "float"

\* C4 (amended): confidence_interval returns a pair (lower_bound,
\* upper_bound) of floats, not a mapping; the other six return a mapping
\* with exactly the listed keys, each value a float except is_normal, a
\* boolean, and n (descriptive_stats, correlation_analysis), an integer.
C4_ResultShapes ==
    Returned =>
        IF op = "confidence_interval"
        THEN /\ outcome.py = "tuple"
             /\ Len(outcome.value) = 2
             /\ \A j \in 1..2 : outcome.value[j].ty = "float"
        ELSE /\ outcome.py = "dict"
             /\ DOMAIN outcome.value = ExpectedKeys
             /\ \A key \in DOMAIN outcome.value :
                   outcome.value[key].ty =
                       CASE key = "is_normal" -> "bool"
                         [] key = "n" -> "int"
                         [] OTHER -> "float"

\* C4 witness: a normality test that returned its three fields.
C4_Witness ==
    /\ op = "normality_test"
    /\ Returned
    /\ outcome.value.is_normal.ty = "bool"
    /\ outcome.value.w_statistic.ty = "float"

\* The paired t statistic of positional pairs (b[j], a[j]), from the sums
\* of the differences: t^2 = D^2 (n-1) / (n Q - D^2), sign of D.
IsPairedT(t, b, a) ==
    LET n == Len(b)
        D == Sum([j \in 1..n |-> b[j] - a[j]])
        Q == Sum([j \in 1..n |-> (b[j] - a[j]) * (b[j] - a[j])])
        den == n * Q - D * D
    IN  IF den = 0
        THEN IF D = 0 THEN t.k = "nan" ELSE t.k = "inf" /\ t.s = Sgn(D)
        ELSE /\ t.k = "fin"
             /\ t.s = Sgn(D)
             /\ t.q.n * den = t.q.d * D * D * (n - 1)

\* C5: paired_t_test pairs by position after cleaning: with m the shorter
\* cleaned length it raises if m < 2, and otherwise tests the pairs
\* (cleaned_before[i], cleaned_after[i]), i < m, and reports df = m - 1.
C5_PositionalPairs ==
    op = "paired_t_test" =>
        LET b == CleanOf(args[1])
            a == CleanOf(args[2])
            m == Least(Len(b), Len(a))
        IN  /\ Raised <=> m < 2
            /\ Returned =>
                /\ used = <<Prefix(b, m), Prefix(a, m)>>
                /\ IsPairedT(outcome.value.t_statistic.x, Prefix(b, m), Prefix(a, m))
                /\ outcome.value.df.x = FInt(m - 1)

\* C5 witness: the samples miss values at different positions and the
\* longer cleaned sample loses its last value.
C5_Witness ==
    /\ op = "paired_t_test"
    /\ Returned
    /\ args[1].kind = "list" /\ args[2].kind = "list"
    /\ Len(args[1].items) = 3 /\ Len(args[2].items) = 3
    /\ args[1].items[1].na
    /\ ~HasMissing(args[2])
    /\ outcome.value.df.x = FInt(1)
    /\ outcome.value.t_statistic.x.k = "fin"

\* The positions at which both inputs hold an observation.
BothAt(x, y) ==
    {j \in 1..Least(Len(x.items), Len(y.items)) : ~x.items[j].na /\ ~y.items[j].na}

RECURSIVE PickAt(_, _, _)
PickAt(data, P, j) ==
    IF j > Len(data.items) THEN <<>>
    ELSE IF j \in P THEN <<data.items[j].v>> \o PickAt(data, P, j + 1)
    ELSE PickAt(data, P, j + 1)

\* correlation_analysis kept the pairs xs, ys (n of them), or raised for
\* fewer than two.
KeptPairs(xs, ys) ==
    /\ Raised <=> Len(xs) < 2
    /\ Returned =>
        /\ used = <<xs, ys>>
        /\ outcome.value.n.x = FInt(Len(xs))

\* C6 (as stated): for list, array and Series inputs alike the pairs kept
\* are those at the positions where both inputs are non-missing; an
\* invalid method raises whatever the data.
C6_PairsByPosition ==
    op = "correlation_analysis" =>
        IF args[3] \notin {"pearson", "spearman", "kendall"} THEN Raised
        ELSE KeptPairs(PickAt(args[1], BothAt(args[1], args[2]), 1),
                       PickAt(args[2], BothAt(args[1], args[2]), 1))

\* C6 (amended): the pairs kept are those at the index labels where both
\* inputs are non-missing; for list and array inputs the label is the
\* position, a Series brings its own labels.  n counts them, fewer than two
\* raise, and an invalid method raises whatever the data.
C6_PairsByLabel ==
    op = "correlation_analysis" =>
        IF args[3] \notin {"pearson", "spearman", "kendall"} THEN Raised
        ELSE /\ KeptPairs(AlignedValues(args[1], args[2]),
                          AlignedValues(args[2], args[1]))
             /\ (args[1].kind = "list" /\ args[2].kind = "list") =>
                    KeptPairs(PickAt(args[1], BothAt(args[1], args[2]), 1),
                              PickAt(args[2], BothAt(args[1], args[2]), 1))

\* C6 witness: a Series labelled 1, 2, 3 against a list (labels 0, 1, 2):
\* the pairs are formed at the labels 1 and 2, not at equal positions.
C6_Witness ==
    /\ op = "correlation_analysis"
    /\ Returned
    /\ args[1].kind = "series" /\ args[2].kind = "list"
    /\ Len(args[1].items) = 3 /\ ~HasMissing(args[1])
    /\ Len(args[2].items) = 3 /\ ~HasMissing(args[2])
    /\ outcome.value.n.x = FInt(2)
    /\ used = <<<<args[1].items[1].v, args[1].items[2].v>>,
                <<args[2].items[2].v, args[2].items[3].v>>>>
    /\ args[1].items[1].v # args[1].items[3].v

\* n * (sum of squares) - (sum)^2 = n * (n-1) * (sample variance) of xs
NSS(xs) == Len(xs) * Sum([j \in 1..Len(xs) |-> xs[j] * xs[j]]) - Sum(xs) * Sum(xs)

\* d = (mean1 - mean2) / sqrt(((n1-1) s1^2 + (n2-1) s2^2) / df) for the
\* samples g1, g2, in integers: with A = NSS, (n-1) s^2 = A / n, so
\* d^2 = (S1 n2 - S2 n1)^2 df / (n1 n2 (A1 n2 + A2 n1)), sign of mean1 - mean2.
IsPooledD(d, g1, g2, df) ==
    LET n1 == Len(g1)
        n2 == Len(g2)
        num == Sum(g1) * n2 - Sum(g2) * n1
        den == n1 * n2 * (NSS(g1) * n2 + NSS(g2) * n1)
    IN  IF den = 0
        THEN IF num = 0 THEN d.k = "nan" ELSE d.k = "inf" /\ d.s = Sgn(num)
        ELSE /\ d.k = "fin"
             /\ d.s = Sgn(num)
             /\ d.q.n * den = d.q.d * num * num * df

\* C7: independent_t_test reports df = n1 + n2 - 2 and Cohen's d with the
\* pooled standard deviation over the cleaned groups, whatever equal_var is.
C7_PooledCohensD ==
    (op = "independent_t_test" /\ Returned) =>
        LET g1 == CleanOf(args[1])
            g2 == CleanOf(args[2])
        IN  /\ outcome.value.df.x = FInt(Len(g1) + Len(g2) - 2)
            /\ IsPooledD(outcome.value.cohens_d.x, g1, g2, Len(g1) + Len(g2) - 2)

\* C7 witness: a Welch test (equal_var false) on groups of different sizes
\* and different means, d finite.
C7_Witness ==
    /\ op = "independent_t_test"
    /\ Returned
    /\ args[3] = FALSE
    /\ Len(CleanOf(args[1])) = 2
    /\ Len(CleanOf(args[2])) = 3
    /\ outcome.value.cohens_d.x.k = "fin"
    /\ outcome.value.cohens_d.x.s = -1
    /\ outcome.value.df.x = FInt(3)

\* C8: swapping group1 and group2 negates t_statistic and cohens_d and
\* leaves p_value and df as they are.
C8_Antisymmetric ==
    (op = "independent_t_test" /\ Returned) =>
        LET swapped == independent_t_test(args[2], args[1], args[3]).outcome
        IN  /\ swapped.status = "returned"
            /\ swapped.value.t_statistic.x = FNeg(outcome.value.t_statistic.x)
            /\ swapped.value.cohens_d.x = FNeg(outcome.value.cohens_d.x)
            /\ swapped.value.p_value = outcome.value.p_value
            /\ swapped.value.df = outcome.value.df

\* C8 witness: groups of different sizes and variances with a positive t.
C8_Witness ==
    /\ op = "independent_t_test"
    /\ Returned
    /\ Len(CleanOf(args[1])) # Len(CleanOf(args[2]))
    /\ NSS(CleanOf(args[1])) # 0
    /\ NSS(CleanOf(args[2])) = 0
    /\ outcome.value.t_statistic.x.k = "fin"
    /\ outcome.value.t_statistic.x.s = 1

\* C9: one_way_anova raises for fewer than 2 groups or a group with fewer
\* than 2 non-missing values; otherwise df_between = k - 1, df_within = N - k.
C9_AnovaDegrees ==
    op = "one_way_anova" =>
        LET k == Len(args[1])
            bigN == Sum([j \in 1..k |-> Len(CleanOf(args[1][j]))])
        IN  /\ Raised <=>
                (k < 2 \/ \E j \in 1..k : Len(CleanOf(args[1][j])) < 2)
            /\ Returned =>
                /\ outcome.value.df_between.x = FInt(k - 1)
                /\ outcome.value.df_within.x = FInt(bigN - k)

\* C9 witness: three groups of two observations that differ between the
\* groups.
C9_Witness ==
    /\ op = "one_way_anova"
    /\ Returned
    /\ Len(args[1]) = 3
    /\ CleanOf(args[1][1]) # CleanOf(args[1][3])
    /\ outcome.value.df_between.x = FInt(2)
    /\ outcome.value.df_within.x = FInt(3)

\* x * x for a float x = s * sqrt(q)
FSquare(x) ==
    CASE x.k = "nan" -> FNaN
      [] x.k = "inf" -> FInf(1)
      [] OTHER -> FRat(x.q)

\* C10: with exactly two groups, f_statistic is the square of the
\* equal-variance t statistic of the same groups, df_between is 1 and
\* df_within is the t-test's df.
C10_TwoGroupAnovaIsTSquared ==
    (op = "one_way_anova" /\ Len(args[1]) = 2 /\ Returned) =>
        LET tt == independent_t_test(args[1][1], args[1][2], TRUE).outcome
        IN  /\ tt.status = "returned"
            /\ outcome.value.f_statistic.x = FSquare(tt.value.t_statistic.x)
            /\ outcome.value.df_between.x = FInt(1)
            /\ outcome.value.df_within = tt.value.df

\* C10 witness: two groups of different sizes, F finite and not zero.
C10_Witness ==
    /\ op = "one_way_anova"
    /\ Len(args[1]) = 2
    /\ Returned
    /\ Len(CleanOf(args[1][1])) = 2
    /\ Len(CleanOf(args[1][2])) = 4
    /\ outcome.value.f_statistic.x.k = "fin"
    /\ outcome.value.f_statistic.x.s = 1

\* ---------------------------------------------------------------- C11

\* The integer square root of a perfect square.
ISqrt(a) == CHOOSE k \in 0..a : k * k = a

\* The rational a finite float stands for, when it is one.
RatOf(x) == Rat(x.s * ISqrt(x.q.n), ISqrt(x.q.d))

\* C11: whenever descriptive_stats returns, the returned q3 minus the
\* returned q1 is exactly the returned iqr, and
\* min <= q1 <= median <= q3 <= max.
C11_QuartilesOrdered ==
    (op = "descriptive_stats" /\ Returned) =>
        LET v == outcome.value
            lo == RatOf(v.min.x)
            q1 == RatOf(v.q1.x)
            md == RatOf(v.median.x)
            q3 == RatOf(v.q3.x)
            hi == RatOf(v.max.x)
        IN  /\ v.iqr.x = FRat(RSub(q3, q1))
            /\ RLeq(lo, q1)
            /\ RLeq(q1, md)
            /\ RLeq(md, q3)
            /\ RLeq(q3, hi)

\* a returned summary whose first quartile is interpolated between two
\* different observations
C11_Witness ==
    /\ op = "descriptive_stats"
    /\ Returned
    /\ outcome.value.q1.x.q.d > 1
    /\ outcome.value.iqr.x.s = 1
    /\ RLess(RatOf(outcome.value.q1.x), RatOf(outcome.value.median.x))

\* ---------------------------------------------------------------- C12

\* C12 as stated: descriptive_stats([5]) returns n = 1,
\* mean = median = min = max = 5, a NaN std, and q1 = q3 = iqr = 0.
C12_SingleValueQuartilesZero ==
    (op = "descriptive_stats" /\ args[1] = ListOf(<<Num(5)>>)) =>
        /\ Returned
        /\ outcome.value.n = PyInt(1)
        /\ outcome.value.mean = PyFloat(FInt(5))
        /\ outcome.value.median = PyFloat(FInt(5))
        /\ outcome.value.min = PyFloat(FInt(5))
        /\ outcome.value.max = PyFloat(FInt(5))
        /\ outcome.value.std = PyFloat(FNaN)
        /\ outcome.value.q1 = PyFloat(FInt(0))
        /\ outcome.value.q3 = PyFloat(FInt(0))
        /\ outcome.value.iqr = PyFloat(FInt(0))

\* C12: descriptive_stats([5]) returns n = 1,
\* mean = median = min = max = 5, a NaN std, q1 = q3 = 5 and iqr = 0.
C12_SingleValue ==
    (op = "descriptive_stats" /\ args[1] = ListOf(<<Num(5)>>)) =>
        /\ Returned
        /\ outcome.value.n = PyInt(1)
        /\ outcome.value.mean = PyFloat(FInt(5))
        /\ outcome.value.median = PyFloat(FInt(5))
        /\ outcome.value.min = PyFloat(FInt(5))
        /\ outcome.value.max = PyFloat(FInt(5))
        /\ outcome.value.std = PyFloat(FNaN)
        /\ outcome.value.q1 = PyFloat(FInt(5))
        /\ outcome.value.q3 = PyFloat(FInt(5))
        /\ outcome.value.iqr = PyFloat(FInt(0))

C12_Witness ==
    /\ op = "descriptive_stats"
    /\ args[1] = ListOf(<<Num(5)>>)
    /\ Returned
    /\ outcome.value.std.x.k = "nan"

\* ---------------------------------------------------------------- C13

\* C13: confidence_interval raises its confidence-level error for every
\* confidence <= 0 or >= 1 (0 and 1 included) whatever the data, also when
\* the data has fewer than 2 observations, and never raises it for a
\* confidence strictly inside (0, 1).
C13_ConfidenceCheckedFirst ==
    (op = "confidence_interval") =>
        IF RLeq(args[2], RInt(0)) \/ RLeq(RInt(1), args[2])
        THEN outcome = err_confidence
        ELSE /\ outcome # err_confidence
             /\ Raised <=> Len(CleanOf(args[1])) < 2

\* confidence exactly 0 on data that also fails the size check
C13_Witness ==
    /\ op = "confidence_interval"
    /\ args[2] = RInt(0)
    /\ Len(CleanOf(args[1])) < 2
    /\ outcome = err_confidence

\* ---------------------------------------------------------------- C14

\* The observations are not all equal: the sample variance is not zero.
Varies(xs) == \E i, j \in 1..Len(xs) : xs[i] # xs[j]

\* C14: for a cleaned sample of at least 2 values that are not all equal,
\* confidence_interval with confidence 0.95 returns (mean - margin,
\* mean + margin) around the sample mean for one margin
\* sem * t.ppf(p, n - 1) > 0: sem > 0 and p = 0.975 is in the upper tail,
\* where the t quantile is positive, so lower < mean < upper.
C14_IntervalAroundMean ==
    (/\ op = "confidence_interval"
     /\ args[2] = Rat(95, 100)
     /\ Len(CleanOf(args[1])) >= 2
     /\ Varies(CleanOf(args[1]))) =>
        /\ Returned
        /\ LET xs == CleanOf(args[1])
               lo == outcome.value[1].x
               hi == outcome.value[2].x
           IN  /\ lo.mean = Rat(Sum(xs), Len(xs))
               /\ hi.mean = lo.mean
               /\ lo.sign = -1
               /\ hi.sign = 1
               /\ hi.sem = lo.sem
               /\ lo.sem.k = "fin"
               /\ lo.sem.s = 1
               /\ hi.crit = lo.crit
               /\ lo.crit.f = "t.ppf"
               /\ lo.crit.a[1] = Rat(975, 1000)
               /\ lo.crit.a[2] = Len(xs) - 1

\* a 95% interval of a three-value sample with a missing entry dropped
C14_Witness ==
    /\ op = "confidence_interval"
    /\ args[2] = Rat(95, 100)
    /\ Returned
    /\ Len(args[1].items) = 3
    /\ Len(CleanOf(args[1])) = 2
    /\ Varies(CleanOf(args[1]))
    /\ outcome.value[1].x.sem.s = 1

\* ---------------------------------------------------------------- C16

C17_MeanDiffOfTestedPairs ==
    (op = "paired_t_test" /\ Returned) =>
        LET b == CleanOf(args[1])
            a == CleanOf(args[2])
            m == Least(Len(b), Len(a))
            d == [j \in 1..m |-> a[j] - b[j]]
            md == outcome.value.mean_diff.x
            t == outcome.value.t_statistic.x
        IN  /\ IsPairedT(t, Prefix(b, m), Prefix(a, m))
            /\ outcome.value.df.x = FInt(m - 1)
            /\ md.k # "nan"
            /\ md = FRat(Rat(Sum(d), m))
            /\ (md.s # 0 /\ t.s # 0) => md.s = -t.s

\* ---------------------------------------------------------------- C15

\* The outcome of a call made alone on the shared inputs.
Alone(c) ==
    IF c.fn = "descriptive_stats"
    THEN descriptive_stats(heap[c.refs[1]]).outcome
    ELSE paired_t_test(heap[c.refs[1]], heap[c.refs[2]]).outcome

\* C15: under every interleaving of the threads' steps, on shared or
\* distinct inputs, a finished call holds the result the same call gives
\* when run alone.
C15_SameAsAlone ==
    \A t \in Threads : pc[t] = "done" => result[t] = Alone(call[t])

\* thread 2 ran a whole call, on the input thread 1 is working on, between
\* two steps of thread 1, and the inputs differ
C15_Witness ==
    /\ pc[1] = "cleaned"
    /\ pc[2] = "done"
    /\ call[1].refs[1] = call[2].refs[1]
    /\ call[1].fn # call[2].fn
    /\ result[2].status = "returned"
    /\ heap[1] # heap[2]

\* ---------------------------------------------------------------- C20

\* C20: load_csv_data and load_excel_data check in a fixed order: a path
\* that does not exist raises FileNotFoundError with no read attempted; a
\* failing read raises ValueError; otherwise the frame is returned exactly
\* when every name of required_columns is a column of the data, and a
\* ValueError naming the missing columns is raised if not; an empty or
\* absent required_columns requires nothing.
C20_LoaderOrder ==
    (cmd \in {"load_csv_data", "load_excel_data"}) =>
        LET file == given[1]
            required == given[2].names
            readfails == \/ file.state = "unreadable"
                         \/ cmd = "load_excel_data" /\ given[3] # 0
            absent == {j \in 1..Len(required) :
                          \A i \in 1..Len(file.columns) :
                              file.columns[i] # required[j]}
        IN  IF file.state = "missing"
            THEN /\ value.status = "raised"
                 /\ value.exc = "FileNotFoundError"
                 /\ reads = 0
            ELSE IF readfails
            THEN /\ value.status = "raised"
                 /\ value.exc = "ValueError"
                 /\ reads = 1
            ELSE /\ reads = 1
                 /\ value.status = "returned" <=> absent = {}
                 /\ value.status = "returned" => value.value = file
                 /\ value.status = "raised" =>
                        /\ value.exc = "ValueError"
                        /\ value.msg[1] = "Missing required columns"
                        /\ Len(value.msg[2]) = Cardinality(absent)
                        /\ \A j \in absent : SeqHas(value.msg[2], required[j])
                 /\ Len(required) = 0 => value.status = "returned"

\* a readable table lacking two of three required columns
C20_Witness ==
    /\ cmd = "load_excel_data"
    /\ given[1].state = "table"
    /\ given[3] = 0
    /\ given[2] = Names(<<"zz", "v", "yy">>)
    /\ value = err_missing_columns(<<"zz", "yy">>)
    /\ reads = 1

\* ---------------------------------------------------------------- C18

\* The command's load succeeds: a readable table holding the columns it
\* requires.
LoadsWith(required) ==
    /\ given[1].state = "table"
    /\ given[2] = "excel" => given[3] = 0
    /\ \A j \in 1..Len(required) : SeqHas(given[1].columns, required[j])

\* The distinct cells of the grouping column in order of first appearance.
GroupsInOrder ==
    LET cells == [j \in 1..Len(given[1].rows) |-> given[1].rows[j][given[4]]]
        distinct == {cells[j] : j \in 1..Len(cells)}
        first(c) == CHOOSE j \in 1..Len(cells) :
                        cells[j] = c /\ \A i \in 1..(j - 1) : cells[i] # c
    IN  CHOOSE o \in [1..Cardinality(distinct) -> distinct] :
            \A i, j \in 1..Cardinality(distinct) :
                i < j => first(o[i]) < first(o[j])

\* The value cells of the rows of a group, in row order.
GroupValues(c) ==
    LET mine == SelectSeq(given[1].rows, LAMBDA r : r[given[4]] = c)
    IN  [j \in 1..Len(mine) |-> mine[j][given[5]]]

NeedTwoGroups == Message("Need at least 2 groups for comparison")

\* C18: a compare_groups run that loads its table chooses by the number
\* of distinct values of the grouping column: with exactly 2 it calls
\* independent_t_test on the two groups' value columns, with more than 2
\* one_way_anova on all groups in order of first appearance, with fewer
\* than 2 it reports 'Need at least 2 groups for comparison' and calls no
\* test; one of the three and no other.
C18_TestByGroupCount ==
    (cmd = "compare_groups" /\ LoadsWith(<<given[4], given[5]>>)) =>
        LET groups == GroupsInOrder IN
        IF Len(groups) = 2
        THEN /\ Len(invoked) = 1
             /\ invoked[1].fn = "independent_t_test"
             /\ invoked[1].args[1].items = GroupValues(groups[1])
             /\ invoked[1].args[2].items = GroupValues(groups[2])
             /\ ~SeqHas(stderr, NeedTwoGroups)
        ELSE IF Len(groups) > 2
        THEN /\ Len(invoked) = 1
             /\ invoked[1].fn = "one_way_anova"
             /\ Len(invoked[1].args[1]) = Len(groups)
             /\ \A j \in 1..Len(groups) :
                    invoked[1].args[1][j].items = GroupValues(groups[j])
             /\ ~SeqHas(stderr, NeedTwoGroups)
        ELSE /\ invoked = <<>>
             /\ stderr = <<NeedTwoGroups>>

\* ---------------------------------------------------------------- C19

Commands ==
    {"load_data", "analyze_column", "compare_groups", "create_plot",
     "correlation_matrix"}

\* The columns a command requires of its table.
RequiredBy ==
    CASE cmd = "analyze_column" -> <<given[4]>>
      [] cmd = "compare_groups" -> <<given[4], given[5]>>
      [] cmd = "create_plot" ->
            IF given[7] # "None" THEN <<given[4], given[5], given[7]>>
            ELSE <<given[4], given[5]>>
      [] OTHER -> <<>>

\* The outcome of a statistics function on the arguments it was called
\* with.
OutcomeOf(c) ==
    CASE c.fn = "descriptive_stats" -> descriptive_stats(c.args[1]).outcome
      [] c.fn = "normality_test" -> normality_test(c.args[1]).outcome
      [] c.fn = "independent_t_test" ->
            independent_t_test(c.args[1], c.args[2], TRUE).outcome
      [] c.fn = "one_way_anova" -> one_way_anova(c.args[1]).outcome
      [] OTHER -> [status |-> "none"]

PlotFunctions ==
    {"create_scatter_plot", "create_line_plot", "create_bar_plot",
     "create_box_plot", "create_correlation_heatmap"}

\* An error was raised inside the command: by its loader, by a statistics
\* function it called, or by the plotting library in a plot function it
\* called.
ErrorRaisedInside ==
    \/ ~LoadsWith(RequiredBy)
    \/ \E j \in 1..Len(invoked) : OutcomeOf(invoked[j]).status = "raised"
    \/ \E j \in 1..Len(invoked) :
            /\ invoked[j].fn \in PlotFunctions
            /\ given[Len(given)].status = "raised"

\* C19: in load_data, analyze_column, compare_groups, create_plot and
\* correlation_matrix an error raised by the loader, a statistics
\* function or a plot function is caught: exactly one message on standard
\* error presents it, nothing follows it, and no exception leaves the
\* command.
C19_ErrorsCaught ==
    (cmd \in Commands) =>
        /\ value = ReturnNone
        /\ ErrorRaisedInside =>
              /\ Len(stderr) = 1
              /\ stderr[1].e.status = "raised"
              /\ stderr[1].text \in
                    {"Error loading data", "Error analyzing data",
                     "Error comparing groups", "Error creating plot",
                     "Error creating correlation matrix"}
              /\ Len(invoked) > 0 =>
                    \/ OutcomeOf(invoked[Len(invoked)]) = stderr[1].e
                    \/ /\ invoked[Len(invoked)].fn \in PlotFunctions
                       /\ given[Len(given)] = stderr[1].e
        /\ ~ErrorRaisedInside =>
              \A j \in 1..Len(stderr) : stderr[j].e.status = "none"

\* normality_test raising after the descriptive statistics were printed
C19_Witness ==
    /\ cmd = "analyze_column"
    /\ Len(invoked) = 2
    /\ Len(stdout) > 1
    /\ stderr = <<ErrorMessage("Error analyzing data", err_normality_small)>>
    /\ value = ReturnNone

\* ---------------------------------------------------------------- C22

\* C22: create_plot prints a success message ('Plot saved to' or 'Plot
\* created successfully') only when it called one of the four plot
\* functions, for every combination of options, an omitted --plot-type
\* included.
C22_SuccessOnlyAfterPlot ==
    (/\ cmd = "create_plot"
     /\ \/ SeqHas(stdout, "Plot saved to")
        \/ SeqHas(stdout, "Plot created successfully")) =>
        \E j \in 1..Len(invoked) :
            invoked[j].fn \in {"create_scatter_plot", "create_line_plot",
                               "create_bar_plot", "create_box_plot"}

\* ---------------------------------------------------------------- C23

\* The column analyze_column was asked for, as the Series df[column].
AnalyzedColumn ==
    SeriesOf([j \in 1..Len(given[1].rows) |-> given[1].rows[j][given[4]]],
             [j \in 1..Len(given[1].rows) |-> j - 1])

\* C23: when analyze_column runs on a column for which descriptive_stats
\* and normality_test both return, its output holds a 95% confidence
\* interval line after the normality results.
C23_ConfidenceLinePrinted ==
    (/\ cmd = "analyze_column"
     /\ LoadsWith(<<given[4]>>)
     /\ descriptive_stats(AnalyzedColumn).outcome.status = "returned"
     /\ normality_test(AnalyzedColumn).outcome.status = "returned") =>
        \E i, j \in 1..Len(stdout) :
            /\ i < j
            /\ stdout[i] = "Is normal"
            /\ stdout[j] = "95% CI"

\* ---------------------------------------------------------------- C21

\* The requested columns that exist in the frame.
RequestedPresent ==
    LET names == IF given[2].none THEN <<"v", "w">> ELSE given[2].names
    IN  {names[j] : j \in 1..Len(names)}
        \cap {given[1].columns[j] : j \in 1..Len(given[1].columns)}

\* C21: validate_numeric_data returns an entry in each of missing_values,
\* infinite_values and outliers for every requested column that exists in
\* the frame, and for no other: the three maps have the same keys.
C21_SameKeys ==
    (cmd = "validate_numeric_data") =>
        /\ DOMAIN value.value.missing_values = RequestedPresent
        /\ DOMAIN value.value.infinite_values = RequestedPresent
        /\ DOMAIN value.value.outliers = RequestedPresent

\* ---------------------------------------------------------------- C24

\* Generator states a call may find.
FoundStates == [seed : {0, 7, 42}, pos : 0..2]

\* C24: create_sample_data(size) returns the same data whatever state it
\* finds the process-wide generator in, with time_point = 0..size-1 and
\* every group value one of A, B, C; and it leaves the generator in a
\* state fixed by size alone, the one reached from seed 42, so what is
\* drawn after the call does not depend on what was drawn before it.
C24_Reproducible ==
    (cmd = "create_sample_data") =>
        LET size == given[1] IN
        /\ \A found \in FoundStates :
              /\ value.value = create_sample_data(size, found).data
              /\ rng = create_sample_data(size, found).rng
        /\ rng.seed = 42
        /\ rng.pos = 3 * size
        /\ value.value.time_point = [i \in 1..size |-> i - 1]
        /\ Len(value.value.group) = size
        /\ \A i \in 1..size : value.value.group[i] \in {"A", "B", "C"}

\* a call made after draws from a generator the caller had seeded with 7
C24_Witness ==
    /\ cmd = "create_sample_data"
    /\ given[1] = 2
    /\ given[2].seed = 7
    /\ given[2].pos > 2
    /\ rng = [seed |-> 42, pos |-> 6]

====
